---- MODULE Spec2Model ----
(***************************************************************************)
(* Model of DiskMonitorService (main.go): the stateful disk check          *)
(* (checkDiskStatusAndNotify), the Telegram delivery with retries          *)
(* (sendTelegramNotification) and the one-shot "test" command of main.     *)
(*                                                                         *)
(* Go strings are modelled as sequences of tokens.  A token is a record    *)
(* [t, s, v]: ASCII text, a newline, a backtick, an emoji (multi-byte), a  *)
(* run of v filler characters, the separator " - ", or a counter           *)
(* "<Name>: <decimal v>".  Concatenation is \o, "" is <<>>, len() is the   *)
(* UTF-8 byte count.  A Go map is a function whose domain is its key set.  *)
(***************************************************************************)
EXTENDS Integers, Sequences, FiniteSets, TLC

VARIABLES
    mode,             \* "service" (svc handler goroutine) or "test" (main, case "test")
    pc,               \* position of the checking thread
    lastErrorState,   \* the global map lastErrorState
    currentProblems,  \* local of checkDiskStatusAndNotify (kept until the next cycle)
    currentErrorMsg,  \* local of checkDiskStatusAndNotify (kept until the next cycle)
    caller,           \* call site of the running sendTelegramNotification
    fullMessage,      \* local of sendTelegramNotification
    i,                \* loop index of sendTelegramNotification
    acq,              \* outcome of cmd.Output() in the current/latest cycle
    calls,            \* sendTelegramNotification calls of the current/latest cycle (run, in test mode)
    attempts,         \* transport attempts of the current/latest call
    delays,           \* time.Sleep arguments (seconds) of the current/latest call
    lastAlert,        \* message of the latest acquisition-failure alert handed to delivery
    okSince,          \* a cycle with successful acquisition ran since lastAlert
    AppConfig,        \* the contents of config.json / the global AppConfig
    proc,             \* the process: "init", "running", "stopped" (Execute returned), "exited"
    done,             \* the channel done of Service.Execute is closed
    tick,             \* a tick waits in ticker.C
    running,          \* calls of checkDiskStatusAndNotify in progress
    scenario,         \* progress of the cycles so far along the three-cycle scenario
    output            \* the report under parsing (ParserSpec)

vars == <<mode, pc, lastErrorState, currentProblems, currentErrorMsg, caller,
          fullMessage, i, acq, calls, attempts, delays, lastAlert, okSince,
          AppConfig, proc, done, tick, running, scenario, output>>

-----------------------------------------------------------------------------
(* Program constants *)

telegramMsgLimit == 4096

maxRetries_OneMore == 4 + 1

maxRetries == 4

\* initialRetryDelay = 5 * time.Second, in seconds
initialRetryDelay == 5

-----------------------------------------------------------------------------
(* Bounds of the model *)

\* number of lines in one PowerShell report
MaxLines == 2

-----------------------------------------------------------------------------
(* Strings *)

Tok(t, s, v) == [t |-> t, s |-> s, v |-> v]

Txt(s) == <<Tok("txt", s, 0)>>

NL == <<Tok("nl", "", 0)>>

BT == <<Tok("bt", "", 0)>>

Emoji(name) == <<Tok("emoji", name, 0)>>

Pad(n) == <<Tok("pad", "x", n)>>

Sep == <<Tok("sep", " - ", 0)>>

Ctr(name, value) == <<Tok("ctr", name, value)>>

RECURSIVE Digits(_)
Digits(v) == IF v < 10 THEN 1 ELSE 1 + Digits(v \div 10)

\* UTF-8 encodings of the emoji literals of main.go
EmojiBytes(name) ==
    CASE name = "computer"     -> 7   \* U+1F5A5 U+FE0F
      [] name = "warning"      -> 6   \* U+26A0 U+FE0F
      [] name = "red_circle"   -> 4   \* U+1F534
      [] name = "green_circle" -> 4   \* U+1F7E2
      [] name = "check_mark"   -> 3   \* U+2705
      [] name = "information"  -> 6   \* U+2139 U+FE0F

EmojiChars(name) ==
    CASE name = "computer"     -> 2
      [] name = "warning"      -> 2
      [] name = "red_circle"   -> 1
      [] name = "green_circle" -> 1
      [] name = "check_mark"   -> 1
      [] name = "information"  -> 2

TokBytes(tok) ==
    CASE tok.t = "txt"   -> Len(tok.s)
      [] tok.t = "nl"    -> 1
      [] tok.t = "bt"    -> 1
      [] tok.t = "sep"   -> 3
      [] tok.t = "pad"   -> tok.v
      [] tok.t = "ctr"   -> Len(tok.s) + 2 + Digits(tok.v)
      [] tok.t = "emoji" -> EmojiBytes(tok.s)

TokChars(tok) ==
    IF tok.t = "emoji" THEN EmojiChars(tok.s) ELSE TokBytes(tok)

RECURSIVE SumBytes(_)
SumBytes(str) == IF str = <<>> THEN 0 ELSE TokBytes(Head(str)) + SumBytes(Tail(str))

\* Go's len(string): the number of bytes
len(str) == SumBytes(str)

RECURSIVE RuneCount(_)
RuneCount(str) == IF str = <<>> THEN 0 ELSE TokChars(Head(str)) + RuneCount(Tail(str))

-----------------------------------------------------------------------------
(* Maps *)

EmptyMap == [k \in {} |-> <<>>]

\* m[k] of Go: the zero value "" for an absent key
Lookup(m, k) == IF k \in DOMAIN m THEN m[k] ELSE <<>>

Put_KeepFirst(m, k, v) ==
    [x \in (DOMAIN m) \cup {k} |-> IF x \in DOMAIN m THEN m[x] ELSE v]

\* m[k] = v
Put(m, k, v) == [x \in (DOMAIN m) \cup {k} |-> IF x = k THEN v ELSE m[x]]

DeepEqual_KeysOnly(a, b) == DOMAIN a = DOMAIN b

\* reflect.DeepEqual on two non-nil map[string]string
DeepEqual(a, b) ==
    /\ Cardinality(DOMAIN a) = Cardinality(DOMAIN b)
    /\ \A k \in DOMAIN a : k \in DOMAIN b /\ a[k] = b[k]

\* the orders in which a range loop may visit the keys in S
Orders(S) == {o \in [1..Cardinality(S) -> S] : \A k \in S : \E n \in 1..Cardinality(S) : o[n] = k}

-----------------------------------------------------------------------------
(* Inputs: the lines PowerShell may print, and the errors of cmd.Output() *)

\* a line in the format of the Write-Output of psCommand
DiskLine(id, media, wear, reallocated) ==
    Txt(id) \o Sep \o Txt("MediaType: ") \o media
      \o Sep \o Ctr("Wear", wear)
      \o Sep \o Ctr("ReallocatedSectors", reallocated)
      \o Sep \o Ctr("PendingSectors", 0)
      \o Sep \o Ctr("UncorrectedErrors", 0)

LineHealthy == DiskLine("Disk[0](A)", Txt("SSD"), 0, 0)

LineWear1 == DiskLine("Disk[0](A)", Txt("SSD"), 1, 0)

LineWear2 == DiskLine("Disk[0](A)", Txt("SSD"), 2, 0)

LineRealloc3 == DiskLine("Disk[1](B)", Txt("HDD"), 0, 3)

LineLong(n) == DiskLine("Disk[1](B)", Pad(n), 0, 3)

LineSkipped == Txt("Could not get counters for a disk. Skipping.")

\* the values of os.Hostname(): "" when it fails
Hostnames == {<<>>, Txt("H")}

\* the texts of the error of cmd.Output()
Errors == {Txt("exit status 1"), Txt("exec: powershell: executable file not found in %PATH%")}

-----------------------------------------------------------------------------
(* checkDiskStatusAndNotify: parsing *)

CounterNames == {"ReallocatedSectors", "PendingSectors", "UncorrectedErrors", "Wear"}

\* re.FindAllStringSubmatch(line, -1)
FindAllStringSubmatch(line) ==
    SelectSeq(line, LAMBDA tok : tok.t = "ctr" /\ tok.s \in CounterNames)

\* strconv.Atoi(match[2])
Atoi(match) == match.v

hasProblem_AnyMatch(line) == FindAllStringSubmatch(line) # <<>>

\* the loop over matches: some matched counter has value > 0
hasProblem(line) ==
    LET matches == FindAllStringSubmatch(line)
    IN  \E n \in 1..Len(matches) : Atoi(matches[n]) > 0

\* strings.Split(line, " - ")[0]
diskIdentifier(line) ==
    LET seps == {n \in 1..Len(line) : line[n].t = "sep"}
    IN  IF seps = {} THEN line
        ELSE SubSeq(line, 1, (CHOOSE n \in seps : \A m \in seps : n <= m) - 1)

\* the scanner loop: the map built from the lines of the output
RECURSIVE ScanLines(_, _)
ScanLines(lines, problems) ==
    IF lines = <<>> THEN problems
    ELSE LET line == Head(lines)
         IN  ScanLines(Tail(lines),
                       IF hasProblem(line)
                       THEN Put(problems, diskIdentifier(line), line)
                       ELSE problems)

ParseOutput(report) == ScanLines(report, EmptyMap)

-----------------------------------------------------------------------------
(* checkDiskStatusAndNotify: messages *)

PowershellErrorKey == Txt("powershell_error")

\* fmt.Sprintf("Failed to run PowerShell command: %v", err)
ErrorMsg(err) == Txt("Failed to run PowerShell command: ") \o err

AlertMessage(msg) == Emoji("warning") \o Txt(" ") \o msg

DiffHeader == Txt("Disk health status has changed!") \o NL \o NL

DetectedBlock(problem) ==
    Emoji("red_circle") \o Txt(" **Problem Detected/Changed:**") \o NL
      \o BT \o problem \o BT \o NL \o NL

ResolvedBlock(disk) ==
    Emoji("green_circle") \o Txt(" **Problem Resolved:**") \o NL
      \o BT \o disk \o BT \o Txt(" is now OK.") \o NL \o NL

IsDetected_NewOnly(previous, current, disk) == disk \notin DOMAIN previous

IsDetected_KeyCompared(previous, current, disk) == Lookup(previous, disk) # disk

\* lastErrorState[disk] != problem
IsDetected(previous, current, disk) == Lookup(previous, disk) # current[disk]

IsResolved_Never(previous, current, disk) == FALSE

\* _, exists := currentProblems[disk]; !exists
IsResolved(previous, current, disk) == disk \notin DOMAIN current

\* first range loop, visiting currentProblems in the given order
RECURSIVE DetectedBlocks(_, _, _)
DetectedBlocks(order, previous, current) ==
    IF order = <<>> THEN <<>>
    ELSE (IF IsDetected(previous, current, Head(order))
          THEN DetectedBlock(current[Head(order)]) ELSE <<>>)
         \o DetectedBlocks(Tail(order), previous, current)

\* second range loop, visiting lastErrorState in the given order
RECURSIVE ResolvedBlocks(_, _, _)
ResolvedBlocks(order, previous, current) ==
    IF order = <<>> THEN <<>>
    ELSE (IF IsResolved(previous, current, Head(order))
          THEN ResolvedBlock(Head(order)) ELSE <<>>)
         \o ResolvedBlocks(Tail(order), previous, current)

\* messageBuilder.String(), for every iteration order of the two maps
DiffMessages(previous, current) ==
    {DiffHeader \o DetectedBlocks(oc, previous, current) \o ResolvedBlocks(op, previous, current) :
        oc \in Orders(DOMAIN current), op \in Orders(DOMAIN previous)}

-----------------------------------------------------------------------------
(* main, case "test": the summary *)

NoProblemsMessage == Emoji("check_mark") \o Txt(" Test complete. No active problems found.")

\* strings.Join(problems, "`\n`")
RECURSIVE Join(_, _)
Join(elems, sep) ==
    IF elems = <<>> THEN <<>>
    ELSE IF Len(elems) = 1 THEN Head(elems)
    ELSE Head(elems) \o sep \o Join(Tail(elems), sep)

ProblemsMessage(problems) ==
    Emoji("information") \o Txt(" Test complete. Current active problems:") \o NL \o NL
      \o BT \o Join(problems, BT \o NL \o BT) \o BT

summaryMessage_DropLast(state) ==
    IF Cardinality(DOMAIN state) = 0 THEN {NoProblemsMessage}
    ELSE {ProblemsMessage([n \in 1..(Len(o) - 1) |-> state[o[n]]]) : o \in Orders(DOMAIN state)}

\* summaryMessage, for every iteration order of lastErrorState
summaryMessage(state) ==
    IF Cardinality(DOMAIN state) = 0 THEN {NoProblemsMessage}
    ELSE {ProblemsMessage([n \in 1..Len(o) |-> state[o[n]]]) : o \in Orders(DOMAIN state)}

-----------------------------------------------------------------------------
(* sendTelegramNotification *)

\* fmt.Sprintf("<computer> **Host:** `%s`\n\n%s", hostname, message)
FullMessage(hostname, message) ==
    Emoji("computer") \o Txt(" **Host:** ") \o BT \o hostname \o BT \o NL \o NL \o message

\* len(fullMessage) > telegramMsgLimit
UseDocument(msg) == len(msg) > telegramMsgLimit

RECURSIVE Pow(_, _)
Pow(b, e) == IF e = 0 THEN 1 ELSE b * Pow(b, e - 1)

RetryDelay_Doubling(n) == initialRetryDelay * Pow(2, n)

\* initialRetryDelay * time.Duration(math.Pow(3, float64(i))), in seconds
RetryDelay(n) == initialRetryDelay * Pow(3, n)

\* the filler that makes the summary of {LineLong} exactly telegramMsgLimit bytes
\* long on a host whose name is unknown
LongPad ==
    telegramMsgLimit - len(FullMessage(<<>>, ProblemsMessage(<<LineLong(0)>>)))

Lines == {LineHealthy, LineWear1, LineWear2, LineRealloc3, LineLong(LongPad), LineSkipped}

RECURSIVE SeqsUpTo(_, _)
SeqsUpTo(S, n) ==
    IF n = 0 THEN {<<>>}
    ELSE LET shorter == SeqsUpTo(S, n - 1)
         IN  shorter \cup {Append(q, x) : q \in shorter, x \in S}

\* the outputs of the PowerShell command
Reports == SeqsUpTo(Lines, MaxLines)

\* currentProblems after the scanner loop, for every output
ParsedReports == {ParseOutput(report) : report \in Reports}

-----------------------------------------------------------------------------
(* loadConfig *)

\* the contents of config.json: absent, not JSON, or the two fields (a field
\* the file does not name is "")
Configs ==
    {[file |-> f, token |-> "", chat |-> ""] : f \in {"missing", "invalid"}}
      \cup {[file |-> "ok", token |-> t, chat |-> c] :
                t \in {"", "YOUR_TOKEN_HERE", "123456:ABC-DEF"},
                c \in {"", "YOUR_CHAT_ID_HERE", "987654321"}}

\* loadConfig returns (no log.Fatal)
ConfigAccepted(cfg) ==
    /\ cfg.file = "ok"
    /\ ~(cfg.token = "YOUR_TOKEN_HERE" \/ cfg.chat = "YOUR_CHAT_ID_HERE" \/ cfg.token = "")

-----------------------------------------------------------------------------
(* The state machine *)

NoCall == <<>>

Init ==
    /\ mode \in {"service", "test"}
    /\ AppConfig \in Configs
    /\ proc = "init"
    /\ pc = "start"
    /\ done = FALSE
    /\ tick = FALSE
    /\ running = 0
    /\ scenario = 0
    /\ output = <<>>
    /\ lastErrorState = EmptyMap
    /\ currentProblems = EmptyMap
    /\ currentErrorMsg = <<>>
    /\ caller = "none"
    /\ fullMessage = <<>>
    /\ i = 0
    /\ acq = "none"
    /\ calls = NoCall
    /\ attempts = <<>>
    /\ delays = <<>>
    /\ lastAlert = <<>>
    /\ okSince = FALSE

\* the process has not terminated
Alive == proc \in {"running", "stopped"}

\* main: setupLogging, loadConfig, then runService (the handler starts the
\* ticker and the checking goroutine) or case "test"
LoadConfig ==
    /\ pc = "start"
    /\ proc = "init"
    /\ IF ConfigAccepted(AppConfig)
       THEN /\ proc' = "running"
            /\ pc' = IF mode = "test" THEN "check" ELSE "idle"
       ELSE /\ proc' = "exited"
            /\ pc' = "fatal"
    /\ UNCHANGED <<mode, AppConfig, done, tick, running, scenario, output,
                   lastErrorState, currentProblems, currentErrorMsg, caller,
                   fullMessage, i, acq, calls, attempts, delays, lastAlert, okSince>>

\* the ticker sends on ticker.C (capacity 1; a tick that finds it full is
\* dropped); the deferred ticker.Stop() ends it when Execute returns
TimerFire ==
    /\ mode = "service"
    /\ proc = "running"
    /\ ~tick
    /\ tick' = TRUE
    /\ UNCHANGED <<mode, AppConfig, proc, pc, done, running, scenario, output,
                   lastErrorState, currentProblems, currentErrorMsg, caller,
                   fullMessage, i, acq, calls, attempts, delays, lastAlert, okSince>>

AtCheck_AnyTime ==
    /\ Alive
    /\ \/ mode = "service" /\ pc \in {"idle", "attempt", "sleep"} /\ tick
       \/ mode = "test" /\ pc = "check"

\* the checking thread is about to call checkDiskStatusAndNotify: the select of
\* the service goroutine receives from ticker.C (it may, also when done is
\* closed: select picks among the ready cases), or main is at case "test"
AtCheck ==
    /\ Alive
    /\ \/ mode = "service" /\ pc = "idle" /\ tick
       \/ mode = "test" /\ pc = "check"

AfterCheck_NoSummary(m) == IF m = "test" THEN "done" ELSE "idle"

AfterCheck_AlwaysSummary(m) == "summary"

AfterCheck_ReturnAfterCheck(m) == IF m = "test" THEN "summary" ELSE "returned"

\* where checkDiskStatusAndNotify returns to: the select loop of the service
\* goroutine, or the summary of case "test"
AfterCheck(m) == IF m = "test" THEN "summary" ELSE "idle"

\* entry of sendTelegramNotification(message) called from site c
EnterSend(c, message, hostname, earlier) ==
    /\ caller' = c
    /\ fullMessage' = FullMessage(hostname, message)
    /\ i' = 0
    /\ pc' = "attempt"
    /\ calls' = Append(earlier, [caller |-> c, message |-> message])
    /\ attempts' = <<>>
    /\ delays' = <<>>

\* checkDiskStatusAndNotify returns without having called sendTelegramNotification
ReturnUnsent ==
    /\ pc' = AfterCheck(mode)
    /\ calls' = NoCall
    /\ UNCHANGED <<caller, fullMessage, i, attempts, delays, lastErrorState>>

AlertNeeded_Always(state, msg) == TRUE

\* lastErrorState["powershell_error"] != currentErrorMsg
AlertNeeded(state, msg) == Lookup(state, PowershellErrorKey) # msg

\* the three-cycle scenario from process start, as far as the cycles so far
\* follow it: 1 = one faulty device, 2 = then nothing faulty, 3 = again
\* nothing faulty; OffScenario otherwise
OffScenario == 9

ScenarioStep(n, current) ==
    CASE n = 0 /\ Cardinality(DOMAIN current) = 1 -> 1
      [] n = 1 /\ DOMAIN current = {}             -> 2
      [] n = 2 /\ DOMAIN current = {}             -> 3
      [] OTHER                                    -> OffScenario

\* cmd.Output() fails
CheckAcquisitionFailed ==
    /\ AtCheck
    /\ tick' = FALSE
    /\ scenario' = OffScenario
    /\ \E err \in Errors :
         LET msg == ErrorMsg(err)
         IN  /\ acq' = "fail"
             /\ currentErrorMsg' = msg
             /\ currentProblems' = EmptyMap
             /\ IF AlertNeeded(lastErrorState, msg)
                THEN /\ \E hostname \in Hostnames :
                          EnterSend("alert", AlertMessage(msg), hostname, NoCall)
                     /\ running' = running + 1
                     /\ lastAlert' = msg
                     /\ okSince' = FALSE
                     /\ UNCHANGED lastErrorState
                ELSE /\ ReturnUnsent
                     /\ UNCHANGED <<running, lastAlert, okSince>>
    /\ UNCHANGED <<mode, AppConfig, proc, done, output>>

\* cmd.Output() succeeds: parse, compare, compose
CheckAcquisitionOk ==
    /\ AtCheck
    /\ tick' = FALSE
    /\ \E current \in ParsedReports :
         /\  /\ acq' = "ok"
             /\ currentProblems' = current
             /\ currentErrorMsg' = <<>>
             /\ okSince' = TRUE
             /\ scenario' = ScenarioStep(scenario, current)
             /\ IF ~DeepEqual(current, lastErrorState)
                THEN /\ \E message \in DiffMessages(lastErrorState, current), hostname \in Hostnames :
                          EnterSend("diff", message, hostname, NoCall)
                     /\ running' = running + 1
                     /\ UNCHANGED lastErrorState
                ELSE /\ ReturnUnsent
                     /\ UNCHANGED running
    /\ UNCHANGED <<mode, AppConfig, proc, done, output, lastAlert>>

StateAfterSend_OnlyIfDelivered(c) ==
    IF attempts'[Len(attempts')].ok
    THEN CASE c = "alert"   -> Put(EmptyMap, PowershellErrorKey, currentErrorMsg)
           [] c = "diff"    -> currentProblems
           [] c = "summary" -> lastErrorState
    ELSE lastErrorState

StateAfterSend_NoMarker(c) ==
    CASE c = "alert"   -> lastErrorState
      [] c = "diff"    -> currentProblems
      [] c = "summary" -> lastErrorState

StateAfterSend_KeepDevices(c) ==
    CASE c = "alert"   -> Put(lastErrorState, PowershellErrorKey, currentErrorMsg)
      [] c = "diff"    -> currentProblems
      [] c = "summary" -> lastErrorState

StateAfterSend_MarkerIfDelivered(c) ==
    CASE c = "alert"   -> IF attempts'[Len(attempts')].ok
                          THEN Put(EmptyMap, PowershellErrorKey, currentErrorMsg)
                          ELSE lastErrorState
      [] c = "diff"    -> currentProblems
      [] c = "summary" -> lastErrorState

\* the assignment that follows the return of sendTelegramNotification at site c
StateAfterSend(c) ==
    CASE c = "alert"   -> Put(EmptyMap, PowershellErrorKey, currentErrorMsg)
      [] c = "diff"    -> currentProblems
      [] c = "summary" -> lastErrorState

\* sendTelegramNotification returns to its caller; after the summary main
\* returns and the process ends
ReturnFromSend ==
    /\ lastErrorState' = StateAfterSend(caller)
    /\ pc' = IF caller = "summary" THEN "done" ELSE AfterCheck(mode)
    /\ proc' = IF caller = "summary" THEN "exited" ELSE proc
    /\ running' = IF caller = "summary" THEN running ELSE running - 1
    /\ caller' = "none"
    /\ UNCHANGED <<fullMessage, i, delays>>

\* what the endpoint does with one request: answers 200, answers otherwise or
\* the connection fails, or never answers
Outcomes == {"ok", "error", "noanswer"}

\* sendTelegramDocument posts with http.Client{Timeout: 10 * time.Second},
\* sendTelegramText with http.PostForm, i.e. http.DefaultClient (no timeout)
HasTimeout(transport) == transport = "document"

\* one iteration of the retry loop, up to the return or the time.Sleep; a
\* request without timeout that is never answered does not return
TransportAttempt ==
    /\ pc = "attempt"
    /\ Alive
    /\ \E outcome \in Outcomes :
         LET transport == IF UseDocument(fullMessage) THEN "document" ELSE "text"
             ok == outcome = "ok"
         IN  IF outcome = "noanswer" /\ ~HasTimeout(transport)
             THEN /\ pc' = "blocked"
                  /\ UNCHANGED <<lastErrorState, caller, fullMessage, i, attempts,
                                 delays, proc, running>>
             ELSE /\ attempts' = Append(attempts, [transport |-> transport, ok |-> ok])
                  /\ IF ok \/ i = maxRetries
                     THEN ReturnFromSend
                     ELSE /\ delays' = Append(delays, RetryDelay(i))
                          /\ pc' = "sleep"
                          /\ UNCHANGED <<lastErrorState, caller, fullMessage, i, proc, running>>
    /\ UNCHANGED <<mode, AppConfig, done, tick, scenario, output, currentProblems,
                   currentErrorMsg, acq, calls, lastAlert, okSince>>

\* time.Sleep(delay) returns; i++
RetryWake ==
    /\ pc = "sleep"
    /\ Alive
    /\ i' = i + 1
    /\ pc' = "attempt"
    /\ UNCHANGED <<mode, AppConfig, proc, done, tick, running, scenario, output,
                   lastErrorState, currentProblems, currentErrorMsg, caller,
                   fullMessage, acq, calls, attempts, delays, lastAlert, okSince>>

\* main, case "test", after checkDiskStatusAndNotify: compose and send the summary
TestSummary ==
    /\ pc = "summary"
    /\ Alive
    /\ \E message \in summaryMessage(lastErrorState), hostname \in Hostnames :
         EnterSend("summary", message, hostname, calls)
    /\ UNCHANGED <<mode, AppConfig, proc, done, tick, running, scenario, output,
                   lastErrorState, currentProblems, currentErrorMsg, acq,
                   lastAlert, okSince>>

\* Service.Execute receives svc.Stop or svc.Shutdown: close(done), report
\* StopPending, return (svc.Interrogate and other requests change nothing)
Stop ==
    /\ mode = "service"
    /\ proc = "running"
    /\ done' = TRUE
    /\ proc' = "stopped"
    /\ UNCHANGED <<mode, AppConfig, pc, tick, running, scenario, output,
                   lastErrorState, currentProblems, currentErrorMsg, caller,
                   fullMessage, i, acq, calls, attempts, delays, lastAlert, okSince>>

\* the select of the checking goroutine receives from done: return
GoroutineReturn ==
    /\ mode = "service"
    /\ pc = "idle"
    /\ Alive
    /\ done
    /\ pc' = "returned"
    /\ UNCHANGED <<mode, AppConfig, proc, done, tick, running, scenario, output,
                   lastErrorState, currentProblems, currentErrorMsg, caller,
                   fullMessage, i, acq, calls, attempts, delays, lastAlert, okSince>>

\* Execute has returned: svc.Run, runService and main return, the process and
\* every goroutine of it end
Exit ==
    /\ mode = "service"
    /\ proc = "stopped"
    /\ proc' = "exited"
    /\ UNCHANGED <<mode, AppConfig, pc, done, tick, running, scenario, output,
                   lastErrorState, currentProblems, currentErrorMsg, caller,
                   fullMessage, i, acq, calls, attempts, delays, lastAlert, okSince>>

Next ==
    \/ LoadConfig
    \/ TimerFire
    \/ CheckAcquisitionFailed
    \/ CheckAcquisitionOk
    \/ TransportAttempt
    \/ RetryWake
    \/ TestSummary
    \/ Stop
    \/ GoroutineReturn
    \/ Exit

Spec == Init /\ [][Next]_vars

-----------------------------------------------------------------------------
(* The scanner loop on its own, over a wider set of reports *)

\* a counter line that holds no " - "
LineNoSeparator == Txt("Disk[2](C) ") \o Ctr("PendingSectors", 2)

\* a counter that is not one of the four of the regular expression
LineOtherCounter ==
    Txt("Disk[3](D)") \o Sep \o Ctr("Temperature", 40) \o Sep \o Ctr("Wear", 0)

\* $counters.Wear is empty: "Wear: " is followed by no digit
LineBlankWear ==
    Txt("Disk[4](E)") \o Sep \o Txt("MediaType: HDD") \o Sep \o Txt("Wear: ")
      \o Sep \o Ctr("ReallocatedSectors", 0) \o Sep \o Ctr("UncorrectedErrors", 6)

\* the model name holds " - "
LineDashModel ==
    Txt("Disk[5](WD") \o Sep \o Txt("Blue)") \o Sep \o Ctr("Wear", 0)
      \o Sep \o Ctr("PendingSectors", 1)

LineEmpty == <<>>

ParserLines ==
    Lines \cup {LineNoSeparator, LineOtherCounter, LineBlankWear, LineDashModel, LineEmpty}

ParserReports == SeqsUpTo(ParserLines, MaxLines)

ParserInit ==
    /\ mode = "test"
    /\ AppConfig \in {cfg \in Configs : ConfigAccepted(cfg)}
    /\ proc = "running"
    /\ pc = "parse"
    /\ output \in ParserReports
    /\ done = FALSE
    /\ tick = FALSE
    /\ running = 0
    /\ scenario = 0
    /\ lastErrorState = EmptyMap
    /\ currentProblems = EmptyMap
    /\ currentErrorMsg = <<>>
    /\ caller = "none"
    /\ fullMessage = <<>>
    /\ i = 0
    /\ acq = "none"
    /\ calls = NoCall
    /\ attempts = <<>>
    /\ delays = <<>>
    /\ lastAlert = <<>>
    /\ okSince = FALSE

\* cmd.Output() returned output: the scanner loop fills currentProblems
ParseReport ==
    /\ pc = "parse"
    /\ currentProblems' = ParseOutput(output)
    /\ acq' = "ok"
    /\ pc' = "parsed"
    /\ UNCHANGED <<mode, AppConfig, proc, done, tick, running, scenario, output,
                   lastErrorState, currentErrorMsg, caller, fullMessage, i,
                   calls, attempts, delays, lastAlert, okSince>>

ParserNext == ParseReport

ParserSpec == ParserInit /\ [][ParserNext]_vars

-----------------------------------------------------------------------------
\* the steps of the checking thread
Checker ==
    \/ LoadConfig
    \/ CheckAcquisitionFailed
    \/ CheckAcquisitionOk
    \/ TransportAttempt
    \/ RetryWake
    \/ TestSummary
    \/ GoroutineReturn

\* the Go scheduler runs a thread that can take a step
FairSpec == Spec /\ WF_vars(Checker)

-----------------------------------------------------------------------------
TypeOK ==
    /\ mode \in {"service", "test"}
    /\ AppConfig \in Configs
    /\ proc \in {"init", "running", "stopped", "exited"}
    /\ pc \in {"start", "fatal", "idle", "check", "attempt", "sleep", "blocked",
               "summary", "done", "returned", "parse", "parsed"}
    /\ done \in BOOLEAN
    /\ tick \in BOOLEAN
    /\ running \in 0..1
    /\ scenario \in {0, 1, 2, 3, OffScenario}
    /\ caller \in {"none", "alert", "diff", "summary"}
    /\ i \in 0..maxRetries
    /\ acq \in {"none", "ok", "fail"}
    /\ okSince \in BOOLEAN

-----------------------------------------------------------------------------
(* Vocabulary of the properties *)

\* a call of sendTelegramNotification is in progress
InSend == pc \in {"attempt", "sleep", "blocked"}

\* the number of places at which sub occurs in str
Occurrences(sub, str) ==
    Cardinality({n \in 1..(Len(str) - Len(sub) + 1) : SubSeq(str, n, n + Len(sub) - 1) = sub})

\* previous and current differ: a key added, a key removed, or another description
Differs(previous, current) ==
    \/ \E d \in DOMAIN current : d \notin DOMAIN previous
    \/ \E d \in DOMAIN previous : d \notin DOMAIN current
    \/ \E d \in (DOMAIN previous) \cap (DOMAIN current) : previous[d] # current[d]

FailedAttempts == {n \in 1..Len(attempts) : ~attempts[n].ok}

\* both secrets are filled in: not empty and not the placeholder of the template
SecretsValid(cfg) ==
    /\ cfg.file = "ok"
    /\ cfg.token \notin {"", "YOUR_TOKEN_HERE"}
    /\ cfg.chat \notin {"", "YOUR_CHAT_ID_HERE"}

\* the step is the start of a check cycle: the service goroutine takes the tick
\* out of ticker.C, or the test run leaves its call site
StartsCycle ==
    \/ mode = "service" /\ tick /\ ~tick'
    \/ mode = "test" /\ pc = "check" /\ pc' # "check"

-----------------------------------------------------------------------------
\* C1: in service mode a cycle whose acquisition succeeds calls the delivery
\* engine (with the diff message) exactly when the parsed set differs from the
\* retained state; when they are equal nothing is sent, the retained state is
\* unchanged and the thread is idle again.
C1_NotifyIffChanged ==
    [][ (mode = "service" /\ StartsCycle /\ acq' = "ok") =>
          /\ (calls' # NoCall) <=> Differs(lastErrorState, currentProblems')
          /\ calls' # NoCall =>
                /\ Len(calls') = 1 /\ calls'[1].caller = "diff"
                /\ pc' = "attempt"
          /\ calls' = NoCall =>
                /\ lastErrorState' = lastErrorState
                /\ pc' = "idle" ]_vars

\* a cycle found the same non-empty set as retained and sent nothing
C1_Witness ==
    /\ mode = "service" /\ pc = "idle" /\ acq = "ok"
    /\ calls = NoCall
    /\ currentProblems = lastErrorState
    /\ DOMAIN lastErrorState # {}

C3_AtMostFiveAttempts ==
    /\ Len(attempts) <= 5
    /\ \A n \in 1..(Len(attempts) - 1) : ~attempts[n].ok
    /\ (pc = "sleep") => (Len(attempts) < 5 /\ FailedAttempts = 1..Len(attempts))
    /\ (~InSend /\ attempts # <<>>) =>
          (attempts[Len(attempts)].ok \/ Len(attempts) = 5)

\* a call returned to the service loop after five failed attempts
C3_Witness ==
    /\ pc = "idle" /\ caller = "none"
    /\ Len(attempts) = 5
    /\ \A n \in 1..5 : ~attempts[n].ok

\* C4: the waits of one delivery call are 5, 15, 45, 135 seconds in this order,
\* one after each failed attempt except the fifth, none after a success.
C4_BackoffDelays ==
    /\ delays = SubSeq(<<5, 15, 45, 135>>, 1, Len(delays))
    /\ Len(delays) = IF Cardinality(FailedAttempts) > 4 THEN 4 ELSE Cardinality(FailedAttempts)

\* a call that failed five times waited four times
C4_Witness ==
    /\ ~InSend
    /\ Cardinality(FailedAttempts) = 5
    /\ Len(delays) = 4

\* C5: every transport attempt goes to the document transport when the message
\* is longer than 4096 characters and to the inline text transport otherwise.
C5_RoutesByCharacters ==
    \A n \in 1..Len(attempts) :
        attempts[n].transport = IF RuneCount(fullMessage) > 4096 THEN "document" ELSE "text"

\* C6: the diff message is the header followed by one detected/changed block
\* for exactly the devices of current that are absent from previous or have
\* another description there, and one resolved block for exactly the devices
\* of previous absent from current, and nothing else.
C6_DiffMessageBlocks ==
    (caller = "diff" /\ InSend) =>
        LET previous == lastErrorState
            current  == currentProblems
            message  == calls[1].message
            changedOrNew == {d \in DOMAIN current :
                                d \notin DOMAIN previous \/ previous[d] # current[d]}
            resolved == (DOMAIN previous) \ (DOMAIN current)
            blocks   == {DetectedBlock(current[d]) : d \in changedOrNew}
                            \cup {ResolvedBlock(d) : d \in resolved}
            size[B \in SUBSET blocks] ==
                IF B = {} THEN 0
                ELSE LET b == CHOOSE x \in B : TRUE IN Len(b) + size[B \ {b}]
        IN  /\ SubSeq(message, 1, Len(DiffHeader)) = DiffHeader
            /\ \A d \in DOMAIN current :
                  Occurrences(DetectedBlock(current[d]), message)
                      = IF d \in changedOrNew THEN 1 ELSE 0
            /\ \A d \in DOMAIN previous :
                  /\ Occurrences(ResolvedBlock(d), message)
                        = IF d \in resolved THEN 1 ELSE 0
                  /\ previous[d] # Lookup(current, d) =>
                        Occurrences(DetectedBlock(previous[d]), message) = 0
            /\ \A d \in DOMAIN current : Occurrences(ResolvedBlock(d), message) = 0
            /\ Len(message) = Len(DiffHeader) + size[blocks]

\* a diff with one device unchanged and another whose description alone changed
C6_Witness ==
    /\ caller = "diff" /\ InSend
    /\ \E d \in (DOMAIN lastErrorState) \cap (DOMAIN currentProblems) :
          lastErrorState[d] # currentProblems[d]
    /\ \E d \in (DOMAIN lastErrorState) \cap (DOMAIN currentProblems) :
          lastErrorState[d] = currentProblems[d]

\* C7 as stated: a cycle whose acquisition fails sends the alert exactly when
\* its failure message differs from the message of the last alert sent.
C7_AlertIffDiffersFromLastAlert ==
    [][ (StartsCycle /\ acq' = "fail") =>
          ((calls' # NoCall) <=> (currentErrorMsg' # lastAlert)) ]_vars

\* C7: a cycle whose acquisition fails sends the alert exactly when its failure
\* message differs from the message of the last alert sent or a cycle with a
\* successful acquisition has run since that alert; it parses nothing and sends
\* no diff message.
C7_AlertIffDiffersOrRecovered ==
    [][ (StartsCycle /\ acq' = "fail") =>
          /\ (calls' # NoCall) <=> (currentErrorMsg' # lastAlert \/ okSince)
          /\ calls' # NoCall =>
                /\ Len(calls') = 1
                /\ calls'[1] = [caller |-> "alert", message |-> AlertMessage(currentErrorMsg')]
          /\ calls' = NoCall => lastErrorState' = lastErrorState
          /\ currentProblems' = EmptyMap ]_vars

\* a failing cycle repeated the message of the last alert and sent nothing
C7_Witness ==
    /\ mode = "service" /\ pc = "idle" /\ acq = "fail"
    /\ calls = NoCall
    /\ currentErrorMsg = lastAlert
    /\ ~okSince

\* C8 as stated: of two consecutive failing cycles with the same message only
\* the first calls the delivery engine; with different messages both call it.
C8_ConsecutiveFailures ==
    [][ (mode = "service" /\ StartsCycle /\ acq = "fail" /\ acq' = "fail") =>
          IF currentErrorMsg' = currentErrorMsg
          THEN calls # NoCall /\ calls' = NoCall
          ELSE calls # NoCall /\ calls' # NoCall ]_vars

\* C8: of two consecutive failing cycles the second calls the delivery engine
\* exactly when its message differs from the first's, and the first has called
\* it unless the retained state already held its message as the failure marker.
C8_SecondAlertsIffDifferent ==
    [][ (mode = "service" /\ StartsCycle /\ acq = "fail" /\ acq' = "fail") =>
          /\ (calls' # NoCall) <=> (currentErrorMsg' # currentErrorMsg)
          /\ Lookup(lastErrorState, PowershellErrorKey) = currentErrorMsg
          /\ calls # NoCall =>
                calls[1] = [caller |-> "alert", message |-> AlertMessage(currentErrorMsg)] ]_vars

\* the second of two failing cycles is sending an alert for a message that
\* differs from the marker the first one left
C8_Witness ==
    /\ mode = "service" /\ InSend /\ caller = "alert"
    /\ acq = "fail"
    /\ PowershellErrorKey \in DOMAIN lastErrorState
    /\ lastErrorState[PowershellErrorKey] # currentErrorMsg

\* C9: a test run that has finished has called the delivery engine with the
\* summary of the retained state as its last call, exactly once, whatever the
\* check found and whatever became of an earlier delivery; while the summary
\* is being sent the check has returned.
C9_TestAlwaysSendsSummary ==
    (mode = "test" /\ pc = "done") =>
        /\ acq \in {"ok", "fail"}
        /\ calls # NoCall
        /\ calls[Len(calls)].caller = "summary"
        /\ calls[Len(calls)].message \in summaryMessage(lastErrorState)
        /\ Cardinality({n \in 1..Len(calls) : calls[n].caller = "summary"}) = 1

\* a test run whose check found nothing to report has sent the summary
C9_Witness ==
    /\ mode = "test" /\ pc = "done"
    /\ acq = "ok"
    /\ Len(calls) = 1

\* C10: the summary is the fixed no-problems message exactly when the retained
\* state is empty; otherwise it is the one block that lists every retained
\* description once, in some order, and nothing else.
C10_SummaryContent ==
    \A n \in 1..Len(calls) :
        calls[n].caller = "summary" =>
            LET message == calls[n].message
                state   == lastErrorState
                opening == Emoji("information") \o Txt(" Test complete. Current active problems:")
                              \o NL \o NL \o BT
                listed(o) == [k \in 1..Len(o) |-> state[o[k]]]
            IN  /\ (message = NoProblemsMessage) <=> (DOMAIN state = {})
                /\ DOMAIN state # {} =>
                      /\ \A d \in DOMAIN state : Occurrences(state[d], message) = 1
                      /\ \E o \in Orders(DOMAIN state) :
                            message = opening \o Join(listed(o), BT \o NL \o BT) \o BT

\* a summary of two faulty devices
C10_Witness ==
    /\ mode = "test" /\ pc = "done"
    /\ Cardinality(DOMAIN lastErrorState) = 2

-----------------------------------------------------------------------------
\* C11: from process start, three cycles with successful acquisition: the
\* first finds one faulty device, sends exactly one notification, made of the
\* header and the detected block of that device's line, and once its delivery
\* call has returned the retained state is that device alone; the second finds
\* nothing faulty, sends exactly one notification, the header and the resolved
\* block of that device, and leaves the retained state empty; the third finds
\* nothing faulty again, sends nothing and the retained state stays empty.
C11_DetectResolveQuiet ==
    [][ /\ (StartsCycle /\ scenario' = 1) =>
              \E d \in DOMAIN currentProblems' :
                 /\ DOMAIN currentProblems' = {d}
                 /\ calls' = <<[caller |-> "diff",
                                message |-> DiffHeader \o DetectedBlock(currentProblems'[d])]>>
        /\ (scenario' = 1 /\ ~InSend') =>
              (lastErrorState' = currentProblems' /\ Cardinality(DOMAIN lastErrorState') = 1)
        /\ (StartsCycle /\ scenario' = 2) =>
              \E d \in DOMAIN lastErrorState :
                 /\ DOMAIN lastErrorState = {d}
                 /\ calls' = <<[caller |-> "diff",
                                message |-> DiffHeader \o ResolvedBlock(d)]>>
        /\ (scenario' = 2 /\ ~InSend') => lastErrorState' = EmptyMap
        /\ (StartsCycle /\ scenario' = 3) =>
              (calls' = NoCall /\ pc' = "idle" /\ lastErrorState = EmptyMap)
        /\ scenario' = 3 => (lastErrorState' = EmptyMap /\ calls' = NoCall) ]_vars

\* the third cycle of the scenario has run
C11_Witness ==
    /\ mode = "service" /\ pc = "idle"
    /\ scenario = 3
    /\ acq = "ok" /\ calls = NoCall /\ lastErrorState = EmptyMap

-----------------------------------------------------------------------------
\* C12: in service mode at most one call of the check is in progress at any
\* moment, its retry waits included, and it is the one whose delivery call is
\* running; a tick that arrives meanwhile waits in the ticker's channel and
\* starts nothing until that call has returned.
C12_NoOverlappingCycles ==
    /\ running <= 1
    /\ (running = 1) <=> (InSend /\ caller \in {"alert", "diff"})
    /\ (mode = "service" /\ tick /\ ENABLED CheckAcquisitionOk) => running = 0

\* a tick is waiting while a cycle sleeps before its fifth attempt
C12_Witness ==
    /\ mode = "service" /\ pc = "sleep"
    /\ tick
    /\ running = 1
    /\ Len(delays) = 4

\* C13: once the handler has closed done, no check cycle starts, also when a
\* tick was waiting at that moment.
C13_NoCycleAfterStop ==
    [][ done => ~StartsCycle ]_vars

\* C14: when the process of the service has exited, no check cycle is left
\* unfinished: the cycle in flight at the stop command has returned from its
\* delivery call and committed its state before the exit.
C14_InFlightCycleCompletes ==
    (mode = "service" /\ proc = "exited") => (running = 0 /\ ~InSend)

\* C15: a check cycle or a delivery has started only if both secrets of the
\* configuration are non-empty and not the placeholders; otherwise the process
\* has stopped in loadConfig.
C15_SecretsValidated ==
    /\ (acq # "none" \/ calls # NoCall \/ running > 0) => SecretsValid(AppConfig)
    /\ (~SecretsValid(AppConfig) /\ pc # "start") => (pc = "fatal" /\ proc = "exited")

-----------------------------------------------------------------------------
\* C16: in service mode a cycle whose acquisition failed, or whose delivery
\* call gave up after five failed attempts, leaves the process running and the
\* goroutine back at its select: only a stop or shutdown command takes the
\* process out of "running", and while none has come, a waiting tick starts
\* another cycle (whatever the previous one's outcome).
C16_FailuresDoNotTerminate ==
    [][ /\ (mode = "service" /\ StartsCycle /\ acq' = "fail" /\ calls' = NoCall) =>
              (pc' = "idle" /\ proc' = proc)
        /\ (mode = "service" /\ caller \in {"alert", "diff"} /\ InSend /\ ~InSend') =>
              (pc' = "idle" /\ proc' = proc)
        /\ (mode = "service" /\ proc = "running" /\ proc' # "running") => done'
        /\ (mode = "service" /\ proc = "running" /\ pc = "idle" /\ tick) =>
              (ENABLED CheckAcquisitionOk /\ ENABLED CheckAcquisitionFailed)
        /\ (mode = "service" /\ proc = "running" /\ pc = "idle" /\ ~tick) =>
              ENABLED TimerFire ]_vars

\* after a failed acquisition whose alert was given up, the service is at its
\* select with the next tick waiting
C16_Witness ==
    /\ mode = "service" /\ proc = "running" /\ pc = "idle"
    /\ acq = "fail"
    /\ Len(attempts) = 5 /\ FailedAttempts = 1..5
    /\ tick

-----------------------------------------------------------------------------
\* C17: every check cycle that has started eventually returns (unless the
\* process is ended first), whatever the acquisition gave and whatever each
\* transport attempt meets: a 200, an error, or a peer that never answers.
C17_CycleEventuallyReturns ==
    (running > 0) ~> (running = 0 \/ proc = "exited")

-----------------------------------------------------------------------------
\* C18 as stated: every run of the check, started by the timer or by the
\* one-shot invocation, makes at most one call of the delivery engine.
C18_AtMostOneDelivery ==
    Len(calls) <= 1

\* C18: a timer cycle makes zero or one call of the delivery engine; the
\* one-shot invocation makes at most one call inside the check and then always
\* one more for the summary, i.e. one or two calls, of which only the last is
\* the summary.
C18_DeliveriesPerCycle ==
    /\ mode = "service" =>
          /\ Len(calls) <= 1
          /\ \A n \in 1..Len(calls) : calls[n].caller \in {"alert", "diff"}
    /\ mode = "test" =>
          /\ Len(calls) <= 2
          /\ \A n \in 1..Len(calls) : calls[n].caller = "summary" => n = Len(calls)
          /\ Len(calls) = 2 => calls[2].caller = "summary"
          /\ pc = "done" => (calls # NoCall /\ calls[Len(calls)].caller = "summary")

\* a one-shot run has finished after two delivery calls: the diff of the check
\* and the summary
C18_Witness ==
    /\ mode = "test" /\ pc = "done"
    /\ Len(calls) = 2
    /\ calls[1].caller = "diff"
    /\ calls[2].caller = "summary"

-----------------------------------------------------------------------------
\* a line that shows one of the four counters with a value above zero
IsProblemLine(line) ==
    \E n \in 1..Len(line) :
        /\ line[n].t = "ctr"
        /\ line[n].s \in {"Wear", "ReallocatedSectors", "PendingSectors", "UncorrectedErrors"}
        /\ line[n].v > 0

\* the part of the line before its first " - " (the whole line if it has none)
BeforeFirstSeparator(line) ==
    LET free == {n \in 0..Len(line) : \A m \in 1..n : line[m].t # "sep"}
        n == CHOOSE x \in free : \A y \in free : y <= x
    IN  SubSeq(line, 1, n)

\* C19: after parsing, a device key is in the problem set exactly when some
\* line of the report with that part before its first " - " shows one of the
\* four counters above zero, and its value is such a line, whole; lines with no
\* counter match and lines whose counters are all zero add nothing, so a report
\* without problem lines gives the empty set.
C19_ParserProblemLines ==
    pc = "parsed" =>
        LET lines == {output[n] : n \in 1..Len(output)}
            problemLines == {line \in lines : IsProblemLine(line)}
        IN  /\ DOMAIN currentProblems = {BeforeFirstSeparator(line) : line \in problemLines}
            /\ \A key \in DOMAIN currentProblems :
                  /\ currentProblems[key] \in problemLines
                  /\ BeforeFirstSeparator(currentProblems[key]) = key
            /\ problemLines = {} => currentProblems = EmptyMap

\* a report of a line with a blank Wear and an error count above zero, and an
\* all-zero line, has been parsed
C19_Witness ==
    /\ pc = "parsed"
    /\ Len(output) = 2
    /\ \E n \in 1..2 : output[n] = LineBlankWear
    /\ \E n \in 1..2 : ~IsProblemLine(output[n]) /\ FindAllStringSubmatch(output[n]) # <<>>
    /\ DOMAIN currentProblems = {Txt("Disk[4](E)")}

-----------------------------------------------------------------------------
\* comparing S with itself: equal, no device detected/changed, none resolved,
\* and the message would be the bare header
NothingChanged(S) ==
    /\ DeepEqual(S, S)
    /\ {d \in DOMAIN S : IsDetected(S, S, d)} = {}
    /\ {d \in DOMAIN S : IsResolved(S, S, d)} = {}
    /\ DiffMessages(S, S) = {DiffHeader}

ReflexiveOnParsedReports == \A S \in ParsedReports : NothingChanged(S)

\* C20: a cycle whose parsed set equals the retained state S is "not changed":
\* it sends nothing and keeps S, and the differ applied to (S, S) classifies no
\* device as detected/changed and none as resolved; the same holds of every
\* set the parser can give, compared with itself.
C20_DifferReflexive ==
    [][ /\ (StartsCycle /\ acq' = "ok" /\ currentProblems' = lastErrorState) =>
              /\ calls' = NoCall
              /\ lastErrorState' = lastErrorState
              /\ ~InSend'
              /\ NothingChanged(lastErrorState)
        /\ ReflexiveOnParsedReports ]_vars

\* a cycle found the same two faulty devices as retained and was not a change
C20_Witness ==
    /\ mode = "service" /\ pc = "idle" /\ acq = "ok"
    /\ calls = NoCall
    /\ currentProblems = lastErrorState
    /\ Cardinality(DOMAIN lastErrorState) = 2

-----------------------------------------------------------------------------
\* C21: once the handler has closed done, a delivery that is waiting in a
\* backoff sleep does not sleep out its delay and go on to the next attempt:
\* the stop command ends the wait.
C21_StopInterruptsBackoff ==
    [][ (done /\ pc = "sleep") => pc' # "attempt" ]_vars

\* C22: when the delivery call of an acquisition-failed alert returns, the
\* retained state is the one-entry map of the sentinel key and the failure
\* message, every device retained before is gone. A cycle with successful
\* acquisition that finds the sentinel retained always sends one diff message:
\* the header, one detected block for every faulty device of the report, one
\* resolved block for the sentinel key, nothing else; and once a diff delivery
\* has returned the retained state holds no sentinel.
C22_SentinelReplacesState ==
    [][ /\ (caller = "alert" /\ InSend /\ ~InSend') =>
              /\ DOMAIN lastErrorState' = {PowershellErrorKey}
              /\ lastErrorState'[PowershellErrorKey] = currentErrorMsg
        /\ (StartsCycle /\ PowershellErrorKey \in DOMAIN lastErrorState /\ acq' = "ok") =>
              LET current == currentProblems'
                  size[D \in SUBSET DOMAIN current] ==
                      IF D = {} THEN 0
                      ELSE LET d == CHOOSE x \in D : TRUE
                           IN  Len(DetectedBlock(current[d])) + size[D \ {d}]
              IN  /\ Len(calls') = 1
                  /\ calls'[1].caller = "diff"
                  /\ SubSeq(calls'[1].message, 1, Len(DiffHeader)) = DiffHeader
                  /\ \A d \in DOMAIN current :
                        Occurrences(DetectedBlock(current[d]), calls'[1].message) = 1
                  /\ Occurrences(ResolvedBlock(PowershellErrorKey), calls'[1].message) = 1
                  /\ Len(calls'[1].message) = Len(DiffHeader) + size[DOMAIN current]
                                                + Len(ResolvedBlock(PowershellErrorKey))
        /\ (caller = "diff" /\ InSend /\ ~InSend') =>
              /\ lastErrorState' = currentProblems
              /\ PowershellErrorKey \notin DOMAIN lastErrorState' ]_vars

\* a cycle with successful acquisition is sending the diff for a report with
\* two faulty devices while the sentinel alone is retained
C22_Witness ==
    /\ mode = "service" /\ InSend /\ caller = "diff"
    /\ DOMAIN lastErrorState = {PowershellErrorKey}
    /\ Cardinality(DOMAIN currentProblems) = 2

\* C23: the failure marker is written when the delivery call of the alert
\* returns, not before, and whether the alert was delivered or given up: after
\* an alert whose five attempts all failed, an immediately following cycle that
\* fails with the same message sends nothing.
C23_MarkerAfterGivenUpAlert ==
    [][ /\ (caller = "alert" /\ InSend /\ InSend') => lastErrorState' = lastErrorState
        /\ (caller = "alert" /\ InSend /\ ~InSend') =>
              Lookup(lastErrorState', PowershellErrorKey) = currentErrorMsg
        /\ (mode = "service" /\ StartsCycle /\ acq = "fail" /\ calls # NoCall
              /\ FailedAttempts = 1..5
              /\ acq' = "fail" /\ currentErrorMsg' = currentErrorMsg) =>
              (calls' = NoCall /\ pc' = "idle" /\ lastErrorState' = lastErrorState) ]_vars

\* the cycle after a given-up alert failed with the same message and sent nothing
C23_Witness ==
    /\ mode = "service" /\ pc = "idle" /\ acq = "fail"
    /\ calls = NoCall
    /\ FailedAttempts = 1..5
    /\ Lookup(lastErrorState, PowershellErrorKey) = currentErrorMsg

\* C24: after parsing, the entry of a device key is the last line of the report
\* that is a problem line with that key; an earlier problem line with the same
\* key is not in the problem set.
C24_LastLineWins ==
    pc = "parsed" =>
        \A key \in DOMAIN currentProblems :
            LET same == {n \in 1..Len(output) :
                            IsProblemLine(output[n]) /\ BeforeFirstSeparator(output[n]) = key}
                last == CHOOSE n \in same : \A m \in same : m <= n
            IN  /\ same # {}
                /\ currentProblems[key] = output[last]
                /\ \A n \in same :
                      output[n] # output[last] =>
                          \A k \in DOMAIN currentProblems : currentProblems[k] # output[n]

\* a report of two different problem lines of one device has been parsed
C24_Witness ==
    /\ pc = "parsed"
    /\ Len(output) = 2
    /\ output[1] # output[2]
    /\ IsProblemLine(output[1]) /\ IsProblemLine(output[2])
    /\ BeforeFirstSeparator(output[1]) = BeforeFirstSeparator(output[2])
    /\ DOMAIN currentProblems = {BeforeFirstSeparator(output[2])}
    /\ currentProblems[BeforeFirstSeparator(output[2])] = output[2]

====
